---- MODULE Spec2Model ----
(***************************************************************************)
(* Model of the real-time audio safety system.                             *)
(*                                                                         *)
(*   src/safe_audio_system.py       SafeAudioProcessor (noise learning,    *)
(*                                  spectral subtraction, low-pass filter, *)
(*                                  adaptive limiter, stream start-up)     *)
(*   src/simple_pc_to_headphone.py  SimpleAudioProcessor (gain-only        *)
(*                                  limiter)                               *)
(*                                                                         *)
(* Number representation.  An int16 sample is the integer itself.  A float *)
(* sample x is held as the integer x * 32768 (fixed point, 15 fractional   *)
(* bits), so the value int16/32768.0 of the code is exact.  A level in dB  *)
(* is held in tenths of a dB, rounded up, so that "level > MAX_DB" is      *)
(* decided exactly as in the code; -inf is the number NegInf.              *)
(*                                                                         *)
(* Chunk representation.  A chunk is n samples that all carry the same     *)
(* value (a constant signal), for which every stage has a closed form:     *)
(*   [n, a, shape, dtype]   n      number of samples                        *)
(*                          a      the value (int16, or float * 32768)      *)
(*                          shape  "flat": every sample is a                *)
(*                                 "hann": sample k is a * hanning(n)[k]    *)
(*                          dtype  "int16" or "float"                       *)
(***************************************************************************)
EXTENDS Integers, Sequences, FiniteSets, TLC

\* ------------------------------------------------------------------------
\* Program constants
\* ------------------------------------------------------------------------
CHUNK == 1024
AltCHUNK == 512
RATE == 44100
MAX_DB == 70
noise_learning_duration == 3
FullScale == 32768
Int16Min == -32768
Int16Max == 32767
CalibrationOffset == 94
NegInf == -100000
MinSubtractLen == 64
PadLen == 15

\* MAX_DB and the calibration offset in tenths of a dB.
MAX_DB10 == MAX_DB * 10
Calibration10 == CalibrationOffset * 10

\* deque(maxlen=self.RATE * 5)  # 5 seconds
VisualBufferMaxlen == RATE * 5
\* int(self.RATE * self.noise_learning_duration)
NoiseBufferMaxlen == RATE * noise_learning_duration

\* ------------------------------------------------------------------------
\* Arithmetic helpers
\* ------------------------------------------------------------------------
Abs(x) == IF x < 0 THEN -x ELSE x
Sgn(x) == IF x < 0 THEN -1 ELSE IF x > 0 THEN 1 ELSE 0
Max(a, b) == IF a >= b THEN a ELSE b
Min(a, b) == IF a <= b THEN a ELSE b

\* 1000 * 10^(k/20), k = 0..19 (one decade of amplitude in 1 dB steps)
Pow20 == <<1000, 1122, 1259, 1413, 1585, 1778, 1995, 2239, 2512, 2818,
           3162, 3548, 3981, 4467, 5012, 5623, 6310, 7079, 7943, 8913>>
\* 1000 * 10^(k/200), k = 0..9 (one dB in 0.1 dB steps)
Pow200 == <<1000, 1012, 1023, 1035, 1047, 1059, 1072, 1084, 1096, 1109>>

\* 1000 * 10^(j/200) for j in 0..199
PowTenth(j) == (Pow20[(j \div 10) + 1] * Pow200[(j % 10) + 1]) \div 1000

Pow10Int(d) == CASE d = 0 -> 1 [] d = 1 -> 10 [] d = 2 -> 100
                 [] d = 3 -> 1000 [] d = 4 -> 10000 [] OTHER -> 100000

\* 20*log10(r / 32768) in tenths of a dB, rounded up, for 1 <= r <= 32768
Log10Tenths(r) ==
  LET d   == CHOOSE k \in 0..4 :
                /\ r * Pow10Int(k) <= FullScale
                /\ (k = 4 \/ r * Pow10Int(k + 1) > FullScale)
      r10 == r * Pow10Int(d)
      j   == CHOOSE k \in 0..199 :
                /\ r10 * PowTenth(k) <= FullScale * 1000
                /\ (k = 199 \/ r10 * PowTenth(k + 1) > FullScale * 1000)
  IN  -(200 * d + j)

\* ------------------------------------------------------------------------
\* Chunks
\* ------------------------------------------------------------------------
\* (an empty chunk, and a chunk of zeros, has no shape to speak of)
Chunk(n, a, shape, dtype) ==
  [n |-> n, a |-> IF n = 0 THEN 0 ELSE a,
   shape |-> IF n = 0 \/ a = 0 THEN "flat" ELSE shape, dtype |-> dtype]

\* A chunk as delivered by the input stream (np.frombuffer(..., np.int16)).
IntChunk(n, v) == Chunk(n, v, "flat", "int16")

\* audio_data.astype(np.float32) / 32768.0
AsFloat(audio_data) == Chunk(audio_data.n, audio_data.a, audio_data.shape, "float")

\* x.astype(np.int16) of an integral value: the low 16 bits, two's complement
AsInt16(x) == ((x - Int16Min) % (2 * FullScale)) + Int16Min

\* Variant of ClipToInt16: the conversion back to int16 is forgotten.
ClipToInt16_KeepsFloat(audio_float) ==
  Chunk(audio_float.n, Max(Int16Min, Min(Int16Max, audio_float.a)),
        audio_float.shape, "float")

\* np.clip(audio_float * 32768.0, -32768, 32767).astype(np.int16)
ClipToInt16(audio_float) ==
  Chunk(audio_float.n, AsInt16(Max(Int16Min, Min(Int16Max, audio_float.a))),
        audio_float.shape, "int16")

\* floor(sqrt(n)) for a chunk length n
Isqrt(n) == CHOOSE k \in 0..364 : k * k <= n /\ (k + 1) * (k + 1) > n

\* np.sqrt(np.mean(audio_data ** 2)) in fixed point: |a| for a constant
\* signal, |a| * sqrt(3/8) for a Hann-windowed constant signal, |a| / sqrt(n)
\* for a chunk of zeros with one sample of value a ("spike").
Rms(audio_float) ==
  IF audio_float.n = 0 THEN 0
  ELSE IF audio_float.shape = "hann" THEN (Abs(audio_float.a) * 612) \div 1000
  ELSE IF audio_float.shape = "spike" THEN Abs(audio_float.a) \div Isqrt(audio_float.n)
  ELSE Abs(audio_float.a)

\* ------------------------------------------------------------------------
\* Level meter
\* ------------------------------------------------------------------------
\* Variant of calculate_db_level: the +94 dB calibration is left out.
calculate_db_level_NoCalibration(audio_float) ==
  IF audio_float.n = 0 THEN NegInf
  ELSE LET rms == Rms(audio_float) IN
       IF rms > 0 THEN Log10Tenths(rms) ELSE NegInf

calculate_db_level(audio_float) ==
  IF audio_float.n = 0 THEN NegInf
  ELSE LET rms == Rms(audio_float) IN
       IF rms > 0 THEN Log10Tenths(rms) + Calibration10 ELSE NegInf

\* ------------------------------------------------------------------------
\* Adaptive limiter
\* ------------------------------------------------------------------------
\* x * 10 ** (db / 20.0) for db <= 0 given in tenths of a dB
db_to_linear_times(x, db10) ==
  LET att == -db10
      q   == (Abs(x) * 1000) \div PowTenth(att % 200)
  IN  Sgn(x) * (q \div Pow10Int(att \div 200))

\* np.tanh(y) for |y| <= 1: y - y^3/3 + 2y^5/15 (beyond 1, where tanh
\* flattens, the value at 1 is used)
Tanh(y) ==
  LET m  == Min(Abs(y), FullScale)
      y2 == (m * m) \div FullScale
      y3 == (y2 * m) \div FullScale
      y5 == (y3 * y2) \div FullScale
  IN  Sgn(y) * (m - (y3 \div 3) + ((2 * y5) \div 15))

\* np.tanh(audio_data * 0.8) * 0.8
SoftLimit(a) == (Tanh((a * 8) \div 10) * 8) \div 10

\* Variant of adaptive_volume_control: the gain reduction is left out and
\* only the soft limiting is applied.
adaptive_volume_control_NoGain(audio_data) ==
  LET current_db == calculate_db_level(audio_data) IN
  IF current_db > MAX_DB10
  THEN <<Chunk(audio_data.n, SoftLimit(audio_data.a), audio_data.shape, "float"),
         current_db>>
  ELSE <<audio_data, current_db>>

\* Variant of adaptive_volume_control: the soft limiting is applied to every
\* chunk, not only to those above MAX_DB.
adaptive_volume_control_AlwaysShapes(audio_data) ==
  LET current_db == calculate_db_level(audio_data)
      scaled == IF current_db > MAX_DB10
                THEN db_to_linear_times(audio_data.a, -(current_db - MAX_DB10))
                ELSE audio_data.a
  IN  <<Chunk(audio_data.n, SoftLimit(scaled), audio_data.shape, "float"), current_db>>

\* Returns <<audio_data, current_db>>; current_db is measured on entry.
adaptive_volume_control(audio_data) ==
  LET current_db == calculate_db_level(audio_data) IN
  IF current_db > MAX_DB10
  THEN LET reduction_db == current_db - MAX_DB10
           scaled == db_to_linear_times(audio_data.a, -reduction_db)
       IN  <<Chunk(audio_data.n, SoftLimit(scaled), audio_data.shape, "float"),
             current_db>>
  ELSE <<audio_data, current_db>>

\* Variant of apply_safety_limiting: the gain is applied with the wrong
\* sign, 10 ** (+reduction_db / 20).
apply_safety_limiting_Amplifies(audio_data) ==
  LET rms == Rms(audio_data)
      db_level == IF rms > 0 THEN Log10Tenths(rms) + Calibration10 ELSE NegInf
      reduction == db_level - MAX_DB10
  IN  IF db_level > MAX_DB10 /\ db_level # NegInf
      THEN <<Chunk(audio_data.n,
                   Sgn(audio_data.a)
                     * ((Abs(audio_data.a) * PowTenth(reduction % 200)) \div 1000)
                     * Pow10Int(reduction \div 200),
                   audio_data.shape, "float"), db_level>>
      ELSE <<audio_data, db_level>>

\* SimpleAudioProcessor.apply_safety_limiting: gain reduction only.
\* Returns <<processed, db_level>>.
apply_safety_limiting(audio_data) ==
  LET rms == Rms(audio_data)
      db_level == IF rms > 0 THEN Log10Tenths(rms) + Calibration10 ELSE NegInf
  IN  IF db_level > MAX_DB10 /\ db_level # NegInf
      THEN <<Chunk(audio_data.n, db_to_linear_times(audio_data.a, -(db_level - MAX_DB10)),
                   audio_data.shape, "float"), db_level>>
      ELSE <<audio_data, db_level>>

\* ------------------------------------------------------------------------
\* Noise profile, spectral subtraction, low-pass filter
\* ------------------------------------------------------------------------
\* SafeAudioProcessor.noise_reduction_factor, in tenths
VARIABLE noise_reduction_factor
DefaultReductionFactor == 7

\* noise_buffer is a sequence of runs [n, a]: n consecutive samples of value a.
RECURSIVE BufferLen(_)
BufferLen(buf) == IF buf = <<>> THEN 0 ELSE Head(buf).n + BufferLen(Tail(buf))

\* deque(maxlen=...): drop the oldest samples beyond maxlen.
RECURSIVE DropOldest(_, _)
DropOldest(buf, k) ==
  IF k <= 0 \/ buf = <<>> THEN buf
  ELSE IF Head(buf).n <= k THEN DropOldest(Tail(buf), k - Head(buf).n)
  ELSE <<[n |-> Head(buf).n - k, a |-> Head(buf).a]>> \o Tail(buf)

\* Variant of BufferExtend: a deque created without maxlen.
BufferExtend_NoMaxlen(buf, audio_float) ==
  LET run == [n |-> audio_float.n, a |-> audio_float.a]
  IN  IF audio_float.n = 0 THEN buf
      ELSE IF buf # <<>> /\ buf[Len(buf)].a = run.a
           THEN [buf EXCEPT ![Len(buf)].n = @ + run.n]
           ELSE Append(buf, run)

\* self.noise_buffer.extend(audio_float)
BufferExtend(buf, audio_float) ==
  LET run      == [n |-> audio_float.n, a |-> audio_float.a]
      appended == IF audio_float.n = 0 THEN buf
                  ELSE IF buf # <<>> /\ buf[Len(buf)].a = run.a
                       THEN [buf EXCEPT ![Len(buf)].n = @ + run.n]
                       ELSE Append(buf, run)
  IN  DropOldest(appended, BufferLen(appended) - NoiseBufferMaxlen)

\* Mean magnitude of the buffered samples (weights in 1/1000).
RECURSIVE WeightedMagnitude(_, _)
WeightedMagnitude(buf, total) ==
  IF buf = <<>> THEN 0
  ELSE (((Head(buf).n * 1000) \div total) * Abs(Head(buf).a))
       + WeightedMagnitude(Tail(buf), total)

\* np.abs(np.fft.fft(noise_array * np.hanning(len(noise_array)))): one
\* magnitude per sample of the buffer.  The spectrum of a Hann-windowed
\* signal is held as its length and the amplitude that scales it.
NoiseSpectrum(buf) ==
  LET total == BufferLen(buf) IN
  [none |-> FALSE, len |-> total,
   mag |-> IF total = 0 THEN 0 ELSE WeightedMagnitude(buf, total) \div 1000,
   src |-> buf]

\* self.noise_profile = None
None == [none |-> TRUE, len |-> 0, mag |-> 0, src |-> <<>>]

\* audio_spectrum - factor * noise_spectrum on arrays of different lengths:
\* numpy raises ValueError (operands could not be broadcast together) unless
\* one of the two has a single element.
spectral_subtraction_raises(audio_data, noise_spectrum) ==
  /\ ~noise_spectrum.none
  /\ audio_data.n >= MinSubtractLen
  /\ audio_data.n # noise_spectrum.len
  /\ noise_spectrum.len # 1

\* Variant of spectral_subtraction: the reduction factor is applied to the
\* chunk's own spectrum instead of the noise spectrum.
spectral_subtraction_ScalesSignal(audio_data, noise_spectrum) ==
  IF noise_spectrum.none \/ audio_data.n < MinSubtractLen
  THEN audio_data
  ELSE LET S == Abs(audio_data.a)
           enhanced == Max(S - ((noise_reduction_factor * S) \div 10), S \div 10)
       IN  Chunk(audio_data.n, Sgn(audio_data.a) * enhanced, "hann", "float")

\* Band-wise max(S - factor*N, 0.1*S) on the amplitude that scales the
\* windowed chunk's spectrum; the phase (sign) is kept.  The result is the
\* windowed chunk: the Hann window is applied and not undone.
spectral_subtraction(audio_data, noise_spectrum) ==
  IF noise_spectrum.none \/ audio_data.n < MinSubtractLen
  THEN audio_data
  ELSE LET S == Abs(audio_data.a)
           enhanced == Max(S - ((noise_reduction_factor * noise_spectrum.mag) \div 10),
                           S \div 10)
       IN  Chunk(audio_data.n, Sgn(audio_data.a) * enhanced, "hann", "float")

\* signal.filtfilt raises ValueError unless len(x) > padlen = 3*max(len(a),len(b)).
low_pass_filter_raises(audio_data) == audio_data.n <= PadLen

\* Zero-phase Butterworth low-pass at 8 kHz: unit gain at DC, so a constant
\* signal and the (3 s long) Hann envelope pass unchanged.
low_pass_filter(audio_data) == audio_data

\* ------------------------------------------------------------------------
\* Bounds of the model
\* ------------------------------------------------------------------------
\* Number of process_audio_chunk calls explored in one session.
MaxCalls == 3
\* Tolerance of the limiter's output level, in tenths of a dB.
Epsilon10 == 1
\* Number of blocking reads explored in one run of a read-loop program.
MaxReads == 3

\* Chunk lengths: empty, shorter than filtfilt's padding, the stream's
\* frames_per_buffer, half the learning window, the learning window.
ChunkLengths == {0, 8, CHUNK, NoiseBufferMaxlen \div 2, NoiseBufferMaxlen}
\* Sample values: silence, 69.9 dB, 70.1 dB, full scale.
SampleValues == {0, 2048, 2080, Int16Min}
InputChunks == {IntChunk(n, v) : n \in ChunkLengths, v \in SampleValues}

\* ------------------------------------------------------------------------
\* State
\* ------------------------------------------------------------------------
VARIABLES
  learning_noise,      \* SafeAudioProcessor.learning_noise
  noise_learned,       \* SafeAudioProcessor.noise_learned
  processing_enabled,  \* SafeAudioProcessor.processing_enabled
  noise_buffer,        \* SafeAudioProcessor.noise_buffer (runs, oldest first)
  noise_profile,       \* SafeAudioProcessor.noise_profile
  current_db,          \* SafeAudioProcessor.current_db
  max_db_recorded,     \* SafeAudioProcessor.max_db_recorded
  processed_db,        \* SafeAudioProcessor.processed_db (set: the attribute exists)
  calls,               \* number of process_audio_chunk calls made
  transitions,         \* number of times the Learning->Active code has run
  last,                \* what the latest process_audio_chunk call did
  lim,                 \* a limiter applied on its own: input, result
  mpc,                 \* main(): position in the start-up sequence
  input_stream,        \* SafeAudioProcessor.input_stream (0: None)
  open_streams,        \* per stream: "closed", or the sample format it runs with
  cb,                  \* per stream: position of its audio callback
  cb_chunk,            \* per stream: the chunk its callback is processing
  config,              \* SafeAudioProcessor.FORMAT/CHANNELS/RATE/CHUNK
  sub,                 \* spectral_subtraction applied on its own: input, result
  input_buffer,        \* SafeAudioProcessor.input_buffer (number of samples held)
  output_buffer,       \* SafeAudioProcessor.output_buffer (number of samples held)
  display,             \* what the figure of visualize() shows
  simple,              \* SimpleAudioProcessor: run(), its thread, its figure
  ult,                 \* UltimateAudioVisualizer.visualize_microphone
  twin,                \* a second SafeAudioProcessor fed the same chunks and flag
  started              \* what the latest start_processing call did

sessionVars == <<learning_noise, noise_learned, processing_enabled, noise_buffer,
                 noise_profile, current_db, max_db_recorded, processed_db>>
ghostVars == <<calls, transitions, last>>
mainVars == <<mpc, input_stream, open_streams, cb, cb_chunk, config>>
\* One call of spectral_subtraction on its own
subtractVars == <<noise_reduction_factor, sub>>
\* The visualization buffers and the monitor of SafeAudioProcessor
monitorVars == <<input_buffer, output_buffer, display>>
\* The two read-loop programs
playerVars == <<simple, ult>>
extraVars == <<subtractVars, monitorVars, playerVars, twin, started>>
vars == <<sessionVars, ghostVars, lim, mainVars, extraVars>>

\* PipelineState of the session
State ==
  IF learning_noise THEN "Learning"
  ELSE IF ~processing_enabled THEN "Bypassed" ELSE "Active"

\* The branch the previous call took ("none" before the first call)
PrevState == IF last.called THEN last.state ELSE "none"

NoCall ==
  [called |-> FALSE, state |-> "Learning", input |-> IntChunk(0, 0),
   raised |-> FALSE, output |-> IntChunk(0, 0), stages |-> <<>>,
   fired |-> FALSE, limiter_in |-> IntChunk(0, 0),
   limiter_out |-> IntChunk(0, 0), limiter_db |-> NegInf,
   accumulated |-> 0, profile_before |-> None, prev |-> "none"]

\* SafeAudioProcessor.__init__ (the attribute processed_db does not exist
\* until the Active branch first assigns it: set = FALSE)
InitSession ==
  /\ learning_noise = TRUE
  /\ noise_learned = FALSE
  /\ processing_enabled = TRUE
  /\ noise_buffer = <<>>
  /\ noise_profile = None
  /\ current_db = 0
  /\ max_db_recorded = 0
  /\ processed_db = [set |-> FALSE, db |-> 0]
  /\ calls = 0
  /\ transitions = 0
  /\ last = NoCall

\* No limiter call, no stream: the parts of the state a specification of
\* the chunk pipeline leaves alone.
Streams == {1, 2}
PrimaryConfig == [FORMAT |-> "paInt16", CHANNELS |-> 1, RATE |-> RATE, CHUNK |-> CHUNK]
NoLimiterCall == [impl |-> "none", input |-> Chunk(0, 0, "flat", "float"),
                  output |-> Chunk(0, 0, "flat", "float"), db |-> NegInf,
                  passes |-> 0, first |-> Chunk(0, 0, "flat", "float"),
                  metered |-> FALSE, level |-> NegInf,
                  converted |-> FALSE, int16 |-> 0]
AlternativeConfig == [FORMAT |-> "paFloat32", CHANNELS |-> 1, RATE |-> RATE,
                      CHUNK |-> AltCHUNK]
NoSubtractCall ==
  [done |-> FALSE, input |-> Chunk(0, 0, "flat", "float"), profile |-> None,
   raised |-> FALSE, output |-> Chunk(0, 0, "flat", "float")]

\* self.noise_reduction_factor = 0.7
InitSubtractIdle ==
  /\ noise_reduction_factor = DefaultReductionFactor
  /\ sub = NoSubtractCall

\* Nothing drawn yet
BlankDisplay ==
  [input_len |-> 0, output_len |-> 0, input_db |-> 0, output_db |-> 0,
   max_db |-> 0, status |-> "none"]

\* input_buffer = deque(maxlen=RATE * 5), output_buffer likewise; no frame
\* of the animation has run
InitMonitorIdle ==
  /\ input_buffer = 0
  /\ output_buffer = 0
  /\ display = BlankDisplay

\* SimpleAudioProcessor.__init__; rpc = "off": run() has not been called
SimpleOff ==
  [rpc |-> "off", processing |-> FALSE, thread |-> "none",
   input_stream |-> "None", output_stream |-> "None",
   input_data |-> 0, output_data |-> 0, db_history |-> <<>>,
   max_db_recorded |-> 0, chunk |-> Chunk(0, 0, "flat", "float"),
   reads |-> 0, failed |-> FALSE, reads_after_failure |-> 0,
   escaped |-> FALSE,
   display |-> [input_len |-> 0, output_len |-> 0, db_len |-> 0,
                current_db |-> 0, max_db |-> 0]]

\* visualize_microphone's attributes (lines 335-343); pc = "off": the
\* window is not open
UltimateOff ==
  [pc |-> "off", devices |-> FALSE, processing_active |-> FALSE,
   stream_input |-> "None", stream_output |-> "None",
   db_history |-> <<>>, max_db_recorded |-> 0,
   reads |-> 0, failed |-> FALSE, reads_after_failure |-> 0,
   restopped |-> FALSE]

InitPlayersIdle ==
  /\ simple = SimpleOff
  /\ ult = UltimateOff

\* The attributes of a SafeAudioProcessor that process_audio_chunk reads or
\* writes, as one value
Session ==
  [learning_noise |-> learning_noise, noise_learned |-> noise_learned,
   processing_enabled |-> processing_enabled, noise_buffer |-> noise_buffer,
   noise_profile |-> noise_profile, current_db |-> current_db,
   max_db_recorded |-> max_db_recorded, processed_db |-> processed_db]

\* A second SafeAudioProcessor() just constructed; nothing returned yet
NewTwin ==
  [session |-> [learning_noise |-> TRUE, noise_learned |-> FALSE,
                processing_enabled |-> TRUE, noise_buffer |-> <<>>,
                noise_profile |-> None, current_db |-> 0,
                max_db_recorded |-> 0,
                processed_db |-> [set |-> FALSE, db |-> 0]],
   output |-> IntChunk(0, 0), raised |-> FALSE]

\* start_processing has not been called
NotStarted ==
  [called |-> FALSE, primary_ok |-> FALSE, alt_tried |-> FALSE, alt_ok |-> FALSE,
   raised |-> FALSE, before |-> PrimaryConfig]

InitTwin == twin = NewTwin /\ started = NotStarted

InitExtraIdle ==
  /\ InitSubtractIdle
  /\ InitMonitorIdle
  /\ InitPlayersIdle
  /\ InitTwin

InitMainIdle ==
  /\ mpc = "engine"
  /\ input_stream = 0
  /\ open_streams = [s \in Streams |-> "closed"]
  /\ cb = [s \in Streams |-> "idle"]
  /\ cb_chunk = [s \in Streams |-> IntChunk(0, 0)]
  /\ config = PrimaryConfig

Init == InitSession /\ lim = NoLimiterCall /\ InitMainIdle /\ InitExtraIdle

\* ------------------------------------------------------------------------
\* process_audio_chunk
\* ------------------------------------------------------------------------
\* Variant of ActivePipeline: spectral subtraction is applied whatever the
\* chunk's length.
ActivePipeline_AlwaysSubtracts(audio_float, profile, learned) ==
  IF learned /\ audio_float.n > 0
  THEN LET subtracted == spectral_subtraction(audio_float, profile)
           s1         == <<"subtract">>
       IN  IF low_pass_filter_raises(subtracted)
           THEN [raised |-> TRUE, output |-> subtracted, stages |-> s1,
                 limited |-> FALSE, limiter_in |-> subtracted,
                 limiter_out |-> subtracted, limiter_db |-> NegInf]
           ELSE LET filtered == low_pass_filter(subtracted)
                    limited  == adaptive_volume_control(filtered)
                IN  [raised |-> FALSE, output |-> ClipToInt16(limited[1]),
                     stages |-> s1 \o <<"filter", "limit">>,
                     limited |-> TRUE, limiter_in |-> filtered,
                     limiter_out |-> limited[1], limiter_db |-> limited[2]]
  ELSE [raised |-> FALSE, output |-> ClipToInt16(audio_float), stages |-> <<>>,
        limited |-> FALSE, limiter_in |-> audio_float,
        limiter_out |-> audio_float, limiter_db |-> NegInf]

\* The stages of the Active branch (lines 402-418) on audio_float:
\* what is returned or raised, which stages ran, what the limiter saw.
ActivePipeline(audio_float, profile, learned) ==
  IF learned /\ audio_float.n > 0
  THEN LET matches    == audio_float.n = profile.len
           subtracted == IF matches THEN spectral_subtraction(audio_float, profile)
                         ELSE audio_float
           s1         == IF matches THEN <<"subtract">> ELSE <<>>
       IN  IF low_pass_filter_raises(subtracted)
           THEN [raised |-> TRUE, output |-> subtracted, stages |-> s1,
                 limited |-> FALSE, limiter_in |-> subtracted,
                 limiter_out |-> subtracted, limiter_db |-> NegInf]
           ELSE LET filtered == low_pass_filter(subtracted)
                    limited  == adaptive_volume_control(filtered)
                IN  [raised |-> FALSE, output |-> ClipToInt16(limited[1]),
                     stages |-> s1 \o <<"filter", "limit">>,
                     limited |-> TRUE, limiter_in |-> filtered,
                     limiter_out |-> limited[1], limiter_db |-> limited[2]]
  ELSE [raised |-> FALSE, output |-> ClipToInt16(audio_float), stages |-> <<>>,
        limited |-> FALSE, limiter_in |-> audio_float,
        limiter_out |-> audio_float, limiter_db |-> NegInf]

\* Variant of LearningOutput: the chunk is limited during learning too.
LearningOutput_Limited(audio_data) ==
  ClipToInt16(adaptive_volume_control(AsFloat(audio_data))[1])

\* return audio_data  (line 397: the original, during learning)
LearningOutput(audio_data) == audio_data

\* Variant of LearnChunk: learning_noise is not cleared at the transition.
LearnChunk_KeepsLearning(audio_data, audio_float) ==
  LET buf   == BufferExtend(noise_buffer, audio_float)
      ready == BufferLen(buf) >= NoiseBufferMaxlen
  IN  /\ noise_buffer' = buf
      /\ IF ready
         THEN /\ noise_profile' = NoiseSpectrum(buf)
              /\ noise_learned' = TRUE
              /\ transitions' = transitions + 1
              /\ UNCHANGED learning_noise
         ELSE UNCHANGED <<noise_profile, learning_noise, noise_learned, transitions>>
      /\ UNCHANGED processed_db
      /\ last' = [NoCall EXCEPT !.called = TRUE, !.state = "Learning",
                                !.input = audio_data,
                                !.output = LearningOutput(audio_data),
                                !.fired = ready,
                                !.accumulated = BufferLen(noise_buffer) + audio_float.n,
                                !.profile_before = noise_profile,
                                !.prev = PrevState]

\* The Learning branch (lines 382-397)
LearnChunk(audio_data, audio_float) ==
  LET buf   == BufferExtend(noise_buffer, audio_float)
      ready == BufferLen(buf) >= NoiseBufferMaxlen
  IN  /\ noise_buffer' = buf
      /\ IF ready
         THEN /\ noise_profile' = NoiseSpectrum(buf)
              /\ learning_noise' = FALSE
              /\ noise_learned' = TRUE
              /\ transitions' = transitions + 1
         ELSE UNCHANGED <<noise_profile, learning_noise, noise_learned, transitions>>
      /\ UNCHANGED processed_db
      /\ last' = [NoCall EXCEPT !.called = TRUE, !.state = "Learning",
                                !.input = audio_data,
                                !.output = LearningOutput(audio_data),
                                !.fired = ready,
                                !.accumulated = BufferLen(noise_buffer) + audio_float.n,
                                !.profile_before = noise_profile,
                                !.prev = PrevState]

\* The bypass branch (lines 399-400)
BypassChunk(audio_data) ==
  /\ UNCHANGED <<noise_buffer, noise_profile, learning_noise, noise_learned,
                 transitions, processed_db>>
  /\ last' = [NoCall EXCEPT !.called = TRUE, !.state = "Bypassed",
                            !.input = audio_data, !.output = audio_data,
                            !.profile_before = noise_profile,
                            !.prev = PrevState]

\* Variant of ActiveChunk: the noise profile is re-estimated from every
\* processed chunk.
ActiveChunk_Relearns(audio_data, audio_float) ==
  LET r == ActivePipeline(audio_float, noise_profile, noise_learned) IN
  /\ UNCHANGED <<noise_buffer, learning_noise, noise_learned, transitions>>
  /\ noise_profile' = NoiseSpectrum(BufferExtend(noise_buffer, audio_float))
  /\ processed_db' = IF r.limited THEN [set |-> TRUE, db |-> r.limiter_db]
                     ELSE processed_db
  /\ last' = [NoCall EXCEPT !.called = TRUE, !.state = "Active",
                            !.input = audio_data, !.raised = r.raised,
                            !.output = r.output, !.stages = r.stages,
                            !.limiter_in = r.limiter_in,
                            !.limiter_out = r.limiter_out,
                            !.limiter_db = r.limiter_db,
                            !.profile_before = noise_profile,
                            !.prev = PrevState]

\* The Active branch (lines 402-418)
ActiveChunk(audio_data, audio_float) ==
  LET r == ActivePipeline(audio_float, noise_profile, noise_learned) IN
  /\ UNCHANGED <<noise_buffer, noise_profile, learning_noise, noise_learned,
                 transitions>>
  /\ processed_db' = IF r.limited THEN [set |-> TRUE, db |-> r.limiter_db]
                     ELSE processed_db
  /\ last' = [NoCall EXCEPT !.called = TRUE, !.state = "Active",
                            !.input = audio_data, !.raised = r.raised,
                            !.output = r.output, !.stages = r.stages,
                            !.limiter_in = r.limiter_in,
                            !.limiter_out = r.limiter_out,
                            !.limiter_db = r.limiter_db,
                            !.profile_before = noise_profile,
                            !.prev = PrevState]

\* Variant of process_audio_chunk: the bypass flag is tested before the
\* learning flag.
process_audio_chunk_BypassFirst(audio_data) ==
  LET audio_float == AsFloat(audio_data)
      input_db    == calculate_db_level(audio_float)
  IN  /\ current_db' = input_db
      /\ max_db_recorded' = Max(max_db_recorded, input_db)
      /\ IF ~processing_enabled THEN BypassChunk(audio_data)
         ELSE IF learning_noise THEN LearnChunk(audio_data, audio_float)
         ELSE ActiveChunk(audio_data, audio_float)
      /\ UNCHANGED processing_enabled

\* Variant of process_audio_chunk: max_db_recorded is assigned the latest
\* level instead of the running maximum.
process_audio_chunk_StoresLatest(audio_data) ==
  LET audio_float == AsFloat(audio_data)
      input_db    == calculate_db_level(audio_float)
  IN  /\ current_db' = input_db
      /\ max_db_recorded' = Max(0, input_db)
      /\ IF learning_noise THEN LearnChunk(audio_data, audio_float)
         ELSE IF ~processing_enabled THEN BypassChunk(audio_data)
         ELSE ActiveChunk(audio_data, audio_float)
      /\ UNCHANGED processing_enabled

\* Variant of process_audio_chunk: the Active branch also consults how many
\* calls the process has made so far, and passes every other chunk through.
process_audio_chunk_CountsCalls(audio_data) ==
  LET audio_float == AsFloat(audio_data)
      input_db    == calculate_db_level(audio_float)
  IN  /\ current_db' = input_db
      /\ max_db_recorded' = Max(max_db_recorded, input_db)
      /\ IF learning_noise THEN LearnChunk(audio_data, audio_float)
         ELSE IF ~processing_enabled \/ calls % 2 = 1 THEN BypassChunk(audio_data)
         ELSE ActiveChunk(audio_data, audio_float)
      /\ UNCHANGED processing_enabled

process_audio_chunk(audio_data) ==
  LET audio_float == AsFloat(audio_data)
      input_db    == calculate_db_level(audio_float)
  IN  /\ current_db' = input_db
      /\ max_db_recorded' = Max(max_db_recorded, input_db)
      /\ IF learning_noise THEN LearnChunk(audio_data, audio_float)
         ELSE IF ~processing_enabled THEN BypassChunk(audio_data)
         ELSE ActiveChunk(audio_data, audio_float)
      /\ UNCHANGED processing_enabled

\* process_audio_chunk as a function of (session, chunk): the session after
\* the call, the chunk returned, whether the call raised
Engine(s, audio_data) ==
  LET audio_float == AsFloat(audio_data)
      input_db    == calculate_db_level(audio_float)
      measured    == [s EXCEPT !.current_db = input_db,
                               !.max_db_recorded = Max(@, input_db)]
  IN  IF s.learning_noise
      THEN LET buf == BufferExtend(s.noise_buffer, audio_float)
           IN  [session |-> IF BufferLen(buf) >= NoiseBufferMaxlen
                            THEN [measured EXCEPT !.noise_buffer = buf,
                                                  !.noise_profile = NoiseSpectrum(buf),
                                                  !.learning_noise = FALSE,
                                                  !.noise_learned = TRUE]
                            ELSE [measured EXCEPT !.noise_buffer = buf],
                output |-> LearningOutput(audio_data), raised |-> FALSE]
      ELSE IF ~s.processing_enabled
      THEN [session |-> measured, output |-> audio_data, raised |-> FALSE]
      ELSE LET r == ActivePipeline(audio_float, s.noise_profile, s.noise_learned)
           IN  [session |-> IF r.limited
                            THEN [measured EXCEPT
                                    !.processed_db = [set |-> TRUE, db |-> r.limiter_db]]
                            ELSE measured,
                output |-> r.output, raised |-> r.raised]

\* One chunk arrives from the stream (audio_callback); the second session
\* receives the same chunk
ProcessChunk ==
  /\ calls < MaxCalls
  /\ \E audio_data \in InputChunks :
       /\ process_audio_chunk(audio_data)
       /\ twin' = Engine(twin.session, audio_data)
  /\ calls' = calls + 1
  /\ UNCHANGED <<lim, subtractVars, monitorVars, playerVars, started, mainVars>>

\* The external bypass flag (processing_enabled) is set or cleared, in both
\* sessions
SetProcessingEnabled ==
  /\ \E b \in BOOLEAN :
       /\ b # processing_enabled
       /\ processing_enabled' = b
       /\ twin' = [twin EXCEPT !.session.processing_enabled = b]
  /\ UNCHANGED <<learning_noise, noise_learned, noise_buffer, noise_profile,
                 current_db, max_db_recorded, processed_db, ghostVars, lim,
                 subtractVars, monitorVars, playerVars, started, mainVars>>

Next == ProcessChunk \/ SetProcessingEnabled

Spec == Init /\ [][Next]_vars

\* ------------------------------------------------------------------------
\* The limiters on their own: one limiter applied to one float chunk
\* ------------------------------------------------------------------------
LimiterAmplitudes == {0, 1, 64, 2048, 2067, 2068, 2080, -2080, 4096, 20000,
                      Int16Max, Int16Min}
\* Chunks of zeros with one sample at full scale: quiet as a whole, with
\* the largest sample an int16 stream can deliver
SpikeAmplitudes == {Int16Max, Int16Min}
LimiterInputs ==
  {Chunk(n, a, shape, "float") :
     n \in {0, 1, CHUNK}, a \in LimiterAmplitudes, shape \in {"flat", "hann"}}
  \cup {Chunk(CHUNK, a, "spike", "float") : a \in SpikeAmplitudes}

InitLimiter ==
  /\ InitSession
  /\ InitMainIdle
  /\ InitExtraIdle
  /\ \E c \in LimiterInputs : lim = [NoLimiterCall EXCEPT !.input = c, !.output = c]

\* SafeAudioProcessor.calculate_db_level(lim.input)
MeasureLevel ==
  /\ lim.impl = "none"
  /\ ~lim.metered
  /\ lim' = [lim EXCEPT !.metered = TRUE, !.level = calculate_db_level(lim.input)]
  /\ UNCHANGED <<sessionVars, ghostVars, mainVars, extraVars>>

\* SafeAudioProcessor.adaptive_volume_control(lim.input)
ApplyAdaptive ==
  /\ lim.impl = "none"
  /\ LET r == adaptive_volume_control(lim.input)
     IN  lim' = [lim EXCEPT !.impl = "adaptive", !.output = r[1], !.db = r[2],
                            !.passes = 1]
  /\ UNCHANGED <<sessionVars, ghostVars, mainVars, extraVars>>

\* adaptive_volume_control applied to the chunk it returned
ReapplyAdaptive ==
  /\ lim.impl = "adaptive"
  /\ lim.passes = 1
  /\ LET r == adaptive_volume_control(lim.output)
     IN  lim' = [lim EXCEPT !.first = lim.output, !.output = r[1], !.db = r[2],
                            !.passes = 2]
  /\ UNCHANGED <<sessionVars, ghostVars, mainVars, extraVars>>

\* SimpleAudioProcessor.apply_safety_limiting(lim.input), without its
\* max_db_recorded / db_history bookkeeping
ApplySimple ==
  /\ lim.impl = "none"
  /\ LET r == apply_safety_limiting(lim.input)
     IN  lim' = [lim EXCEPT !.impl = "simple", !.output = r[1], !.db = r[2],
                            !.passes = 1]
  /\ UNCHANGED <<sessionVars, ghostVars, mainVars, extraVars>>

\* (processed_audio * 32767).astype(np.int16) of the chunk's sample value:
\* scaled, truncated toward zero, and the low 16 bits kept; there is no clip.
\* audio_float.a holds the float value times 32768, and
\* floor(m * 32767 / 32768) = m - ceil(m / 32768).
ScaleToInt16(audio_float) ==
  LET m == Abs(audio_float.a)
  IN  AsInt16(Sgn(audio_float.a) * (m - ((m + Int16Max) \div FullScale)))

\* np.clip(audio_float * 32768.0, -32768, 32767).astype(np.int16) at the end
\* of the session's Active pipeline
ConvertSafe ==
  /\ lim.impl = "adaptive"
  /\ ~lim.converted
  /\ lim' = [lim EXCEPT !.converted = TRUE, !.int16 = ClipToInt16(lim.output).a]
  /\ UNCHANGED <<sessionVars, ghostVars, mainVars, extraVars>>

\* output_bytes = (processed_audio * 32767).astype(np.int16) in
\* audio_processing_loop (and the same expression in the visualizer's animate)
ConvertSimple ==
  /\ lim.impl = "simple"
  /\ ~lim.converted
  /\ lim' = [lim EXCEPT !.converted = TRUE, !.int16 = ScaleToInt16(lim.output)]
  /\ UNCHANGED <<sessionVars, ghostVars, mainVars, extraVars>>

NextLimiter ==
  \/ MeasureLevel
  \/ ApplyAdaptive
  \/ ReapplyAdaptive
  \/ ApplySimple
  \/ ConvertSafe
  \/ ConvertSimple

SpecLimiter == InitLimiter /\ [][NextLimiter]_vars

\* ------------------------------------------------------------------------
\* Spectral subtraction on its own: one call on one chunk and one spectrum
\* ------------------------------------------------------------------------
SubtractChunks ==
  {Chunk(n, a, "flat", "float") : n \in {8, MinSubtractLen, CHUNK},
                                   a \in {0, 2048, -20000}}
SubtractProfiles ==
  {None} \cup {NoiseSpectrum(<<[n |-> n, a |-> a]>>) :
                  n \in {MinSubtractLen, CHUNK}, a \in {0, 100, 5000}}
ReductionFactors == {0, DefaultReductionFactor}

InitSubtract ==
  /\ InitSession
  /\ InitTwin
  /\ InitMainIdle
  /\ lim = NoLimiterCall
  /\ InitMonitorIdle
  /\ InitPlayersIdle
  /\ noise_reduction_factor \in ReductionFactors
  /\ \E c \in SubtractChunks, p \in SubtractProfiles :
       sub = [NoSubtractCall EXCEPT !.input = c, !.profile = p, !.output = c]

\* self.spectral_subtraction(sub.input, sub.profile)
ApplySubtract ==
  /\ ~sub.done
  /\ sub' = IF spectral_subtraction_raises(sub.input, sub.profile)
            THEN [sub EXCEPT !.done = TRUE, !.raised = TRUE]
            ELSE [sub EXCEPT !.done = TRUE,
                             !.output = spectral_subtraction(sub.input, sub.profile)]
  /\ UNCHANGED <<sessionVars, ghostVars, lim, mainVars, noise_reduction_factor,
                 monitorVars, playerVars, twin, started>>

NextSubtract == ApplySubtract

SpecSubtract == InitSubtract /\ [][NextSubtract]_vars

\* ------------------------------------------------------------------------
\* main(): start-up sequence, the callback streams and their callbacks
\* ------------------------------------------------------------------------
\* What the microphone delivers while the program runs.
MainSampleValues == {2080}

\* np.frombuffer(in_data, dtype=np.int16): int16 values per callback buffer
\* (paInt16 streams are opened with CHUNK frames, paFloat32 streams with
\* 512 frames of 4 bytes)
SamplesPerBuffer(format) == IF format = "paInt16" THEN CHUNK ELSE 2 * AltCHUNK

InitMain ==
  /\ InitSession
  /\ lim = NoLimiterCall
  /\ InitExtraIdle
  /\ mpc = "main"
  /\ input_stream = 0
  /\ open_streams = [s \in Streams |-> "closed"]
  /\ cb = [s \in Streams |-> "idle"]
  /\ cb_chunk = [s \in Streams |-> IntChunk(0, 0)]
  /\ config = PrimaryConfig

\* processor.check_headphone_connection() (main, lines 651-653)
MainHeadphoneCheck ==
  /\ mpc = "main"
  /\ \E ok \in BOOLEAN : mpc' = IF ok THEN "select" ELSE "finally"
  /\ UNCHANGED <<sessionVars, ghostVars, lim, extraVars, input_stream, open_streams, cb,
                 cb_chunk, config>>

\* processor.select_desktop_microphone() (main, lines 660-664)
MainSelectMicrophone ==
  /\ mpc = "select"
  /\ \E selected \in BOOLEAN : mpc' = IF selected THEN "start" ELSE "finally"
  /\ UNCHANGED <<sessionVars, ghostVars, lim, extraVars, input_stream, open_streams, cb,
                 cb_chunk, config>>

\* Variant of start_processing: the settings are updated before the
\* alternative open is attempted.
start_processing_UpdatesFirst(s, next) ==
  \E primary_ok \in BOOLEAN, alt_ok \in BOOLEAN :
    /\ IF primary_ok
       THEN /\ open_streams' = [open_streams EXCEPT ![s] = config.FORMAT]
            /\ input_stream' = s
            /\ mpc' = next
            /\ UNCHANGED config
       ELSE IF alt_ok
       THEN /\ open_streams' = [open_streams EXCEPT ![s] = "paFloat32"]
            /\ input_stream' = s
            /\ config' = AlternativeConfig
            /\ mpc' = next
       ELSE /\ mpc' = "finally"
            /\ config' = AlternativeConfig
            /\ UNCHANGED <<open_streams, input_stream>>
    /\ started' = [called |-> TRUE, primary_ok |-> primary_ok,
                   alt_tried |-> ~primary_ok, alt_ok |-> ~primary_ok /\ alt_ok,
                   raised |-> ~primary_ok /\ ~alt_ok, before |-> config]
    /\ UNCHANGED <<sessionVars, ghostVars, lim, subtractVars, monitorVars, playerVars,
                   twin, cb, cb_chunk>>

\* start_processing: open stream s with the current settings (lines 439-448);
\* when that raises, open it as float32 with 512 frames (lines 468-476) and
\* then update the settings (lines 479-482); when that raises too, re-raise
\* (line 500).  A stream opened with a stream_callback runs from the moment
\* it is opened.
start_processing(s, next) ==
  \E primary_ok \in BOOLEAN, alt_ok \in BOOLEAN :
    /\ IF primary_ok
       THEN /\ open_streams' = [open_streams EXCEPT ![s] = config.FORMAT]
            /\ input_stream' = s
            /\ mpc' = next
            /\ UNCHANGED config
       ELSE IF alt_ok
       THEN /\ open_streams' = [open_streams EXCEPT ![s] = "paFloat32"]
            /\ input_stream' = s
            /\ config' = AlternativeConfig
            /\ mpc' = next
       ELSE /\ mpc' = "finally"
            /\ UNCHANGED <<open_streams, input_stream, config>>
    /\ started' = [called |-> TRUE, primary_ok |-> primary_ok,
                   alt_tried |-> ~primary_ok, alt_ok |-> ~primary_ok /\ alt_ok,
                   raised |-> ~primary_ok /\ ~alt_ok, before |-> config]
    /\ UNCHANGED <<sessionVars, ghostVars, lim, subtractVars, monitorVars, playerVars,
                   twin, cb, cb_chunk>>

\* processor.start_processing(input_device_id=selected_device) (main, line 667)
MainStartProcessing == mpc = "start" /\ start_processing(1, "visualize")

\* self.start_processing() inside visualize() (line 611)
VisualizeStartProcessing == mpc = "visualize" /\ start_processing(2, "show")

\* plt.show() returns: the window was closed
CloseWindow ==
  /\ mpc = "show"
  /\ mpc' = "finally"
  /\ UNCHANGED <<sessionVars, ghostVars, lim, extraVars, input_stream, open_streams, cb,
                 cb_chunk, config>>

\* stop_processing (main's finally): stop and close self.input_stream, then
\* self.audio.terminate(), which ends every stream still open.
stop_processing ==
  /\ mpc = "finally"
  /\ open_streams' = [s \in Streams |-> "closed"]
  /\ mpc' = "exit"
  /\ UNCHANGED <<sessionVars, ghostVars, lim, extraVars, input_stream, cb, cb_chunk, config>>

\* audio_callback of stream s enters process_audio_chunk: lines 375-382
CallbackEnter(s) ==
  /\ open_streams[s] # "closed"
  /\ cb[s] = "idle"
  /\ \E v \in MainSampleValues :
       LET audio_data == IntChunk(SamplesPerBuffer(open_streams[s]), v)
           input_db   == calculate_db_level(AsFloat(audio_data))
       IN  /\ cb_chunk' = [cb_chunk EXCEPT ![s] = audio_data]
           /\ current_db' = input_db
           /\ max_db_recorded' = Max(max_db_recorded, input_db)
  /\ cb' = [cb EXCEPT ![s] = IF learning_noise THEN "extend"
                             ELSE IF ~processing_enabled THEN "return"
                             ELSE "active"]
  /\ UNCHANGED <<learning_noise, noise_learned, processing_enabled, noise_buffer,
                 noise_profile, processed_db, ghostVars, lim, extraVars, mpc, input_stream,
                 open_streams, config>>

\* lines 384-386: extend the buffer and test its length
CallbackExtend(s) ==
  /\ cb[s] = "extend"
  /\ noise_buffer' = BufferExtend(noise_buffer, AsFloat(cb_chunk[s]))
  /\ cb' = [cb EXCEPT ![s] = IF BufferLen(noise_buffer') >= NoiseBufferMaxlen
                             THEN "finalize" ELSE "return"]
  /\ UNCHANGED <<learning_noise, noise_learned, processing_enabled, noise_profile,
                 current_db, max_db_recorded, processed_db, ghostVars, lim, extraVars, mpc,
                 input_stream, open_streams, cb_chunk, config>>

\* lines 387-395: compute the noise spectrum and leave Learning
CallbackFinalize(s) ==
  /\ cb[s] = "finalize"
  /\ noise_profile' = NoiseSpectrum(noise_buffer)
  /\ learning_noise' = FALSE
  /\ noise_learned' = TRUE
  /\ transitions' = transitions + 1
  /\ cb' = [cb EXCEPT ![s] = "return"]
  /\ UNCHANGED <<processing_enabled, noise_buffer, current_db, max_db_recorded,
                 processed_db, calls, last, lim, extraVars, mpc, input_stream, open_streams,
                 cb_chunk, config>>

\* lines 402-418: the Active branch
CallbackActive(s) ==
  /\ cb[s] = "active"
  /\ LET r == ActivePipeline(AsFloat(cb_chunk[s]), noise_profile, noise_learned)
     IN  processed_db' = IF r.limited THEN [set |-> TRUE, db |-> r.limiter_db]
                     ELSE processed_db
  /\ cb' = [cb EXCEPT ![s] = "return"]
  /\ UNCHANGED <<learning_noise, noise_learned, processing_enabled, noise_buffer,
                 noise_profile, current_db, max_db_recorded, ghostVars, lim, extraVars, mpc,
                 input_stream, open_streams, cb_chunk, config>>

\* process_audio_chunk returns; audio_callback extends the two
\* visualization buffers (lines 429-430) and returns paContinue
CallbackReturn(s) ==
  /\ cb[s] = "return"
  /\ cb' = [cb EXCEPT ![s] = "idle"]
  /\ input_buffer' = Min(input_buffer + cb_chunk[s].n, VisualBufferMaxlen)
  /\ output_buffer' = Min(output_buffer + cb_chunk[s].n, VisualBufferMaxlen)
  /\ UNCHANGED <<sessionVars, ghostVars, lim, subtractVars, display, playerVars, twin, started,
                 mpc, input_stream, open_streams, cb_chunk, config>>

\* get_visualization_data: the last 4 * CHUNK samples of each buffer;
\* returns the lengths of <<input_data, output_data>>
get_visualization_data ==
  <<Min(input_buffer, 4 * config.CHUNK), Min(output_buffer, 4 * config.CHUNK)>>

\* What animate draws: waveforms (when there is data), dB bars and status
\* text from the session's metrics and flags.  The remaining-time text is
\* not kept in the record.
Drawn ==
  LET data == get_visualization_data IN
  [input_len  |-> IF data[1] > 0 THEN data[1] ELSE display.input_len,
   output_len |-> IF data[2] > 0 THEN data[2] ELSE display.output_len,
   input_db   |-> IF current_db > NegInf THEN Max(0, current_db) ELSE 0,
   output_db  |-> IF processed_db.set /\ processed_db.db > NegInf
                  THEN Max(0, processed_db.db) ELSE 0,
   max_db     |-> IF max_db_recorded > NegInf THEN Max(0, max_db_recorded) ELSE 0,
   status     |-> IF learning_noise THEN "learning"
                  ELSE IF noise_learned THEN "active" ELSE "paused"]

\* Variant of Animate: the monitor consumes what it shows, leaving the
\* buffers empty.
Animate_Drains ==
  /\ mpc = "show"
  /\ display' = Drawn
  /\ input_buffer' = 0
  /\ output_buffer' = 0
  /\ UNCHANGED <<sessionVars, ghostVars, lim, mainVars, subtractVars, playerVars, twin, started>>

\* One frame of visualize()'s animation (FuncAnimation runs animate from the
\* event loop of plt.show())
Animate ==
  /\ mpc = "show"
  /\ display' = Drawn
  /\ UNCHANGED <<sessionVars, ghostVars, lim, mainVars, subtractVars, input_buffer,
                 output_buffer, playerVars, twin, started>>

NextMain ==
  \/ MainHeadphoneCheck
  \/ MainSelectMicrophone
  \/ MainStartProcessing
  \/ VisualizeStartProcessing
  \/ CloseWindow
  \/ stop_processing
  \/ Animate
  \/ \E s \in Streams :
       \/ CallbackEnter(s)
       \/ CallbackExtend(s)
       \/ CallbackFinalize(s)
       \/ CallbackActive(s)
       \/ CallbackReturn(s)

SpecMain == InitMain /\ [][NextMain]_vars

\* ------------------------------------------------------------------------
\* SimpleAudioProcessor: run(), the audio thread and the figure's update
\* ------------------------------------------------------------------------
\* Sample values a blocking read delivers (int16 / 32768.0, times 32768)
PlayerSampleValues == {0, 20000}
\* deque(maxlen=200) / "keep last 200 samples"
DbHistoryMaxlen == 200

\* db_history.append(x) on a history that keeps its last 200 entries
HistoryAppend(h, x) ==
  IF Len(h) >= DbHistoryMaxlen THEN Append(Tail(h), x) ELSE Append(h, x)

SimpleFrame ==
  UNCHANGED <<sessionVars, ghostVars, lim, mainVars, subtractVars, monitorVars, ult,
              twin, started>>

\* Statements of run() and of the audio thread that lie inside a call of
\* stop_processing
InStopProcessing == {"stop_input", "stop_output"}

\* SimpleAudioProcessor() constructed and run() entered
InitSimple ==
  /\ InitSession
  /\ InitTwin
  /\ lim = NoLimiterCall
  /\ InitMainIdle
  /\ InitSubtractIdle
  /\ InitMonitorIdle
  /\ simple = [SimpleOff EXCEPT !.rpc = "select"]
  /\ ult = UltimateOff

\* run(): select_devices(); return when a device is missing
SimpleSelectDevices ==
  /\ simple.rpc = "select"
  /\ \E found \in BOOLEAN :
       simple' = [simple EXCEPT !.rpc = IF found THEN "start" ELSE "exit"]
  /\ SimpleFrame

\* start_processing: set the flag, start the daemon thread; run() goes on to
\* create_visualization() and plt.show()
SimpleStartProcessing ==
  /\ simple.rpc = "start"
  /\ simple' = [simple EXCEPT !.processing = TRUE, !.thread = "open_input",
                              !.rpc = "show"]
  /\ SimpleFrame

\* The daemon thread runs while run() has not returned.
ThreadAlive == simple.rpc \in {"show", "finally", "terminate"} \cup InStopProcessing

\* audio_processing_loop: self.input_stream = self.audio.open(input=True...)
ThreadOpenInput ==
  /\ ThreadAlive
  /\ simple.thread = "open_input"
  /\ \E ok \in BOOLEAN :
       simple' = IF ok
                 THEN [simple EXCEPT !.input_stream = "open", !.thread = "open_output"]
                 ELSE [simple EXCEPT !.thread = "finally"]
  /\ SimpleFrame

\* audio_processing_loop: self.output_stream = self.audio.open(output=True...)
ThreadOpenOutput ==
  /\ ThreadAlive
  /\ simple.thread = "open_output"
  /\ \E ok \in BOOLEAN :
       simple' = IF ok
                 THEN [simple EXCEPT !.output_stream = "open", !.thread = "loop"]
                 ELSE [simple EXCEPT !.thread = "finally"]
  /\ SimpleFrame

\* while self.processing:
ThreadLoopTest ==
  /\ ThreadAlive
  /\ simple.thread = "loop"
  /\ simple' = [simple EXCEPT !.thread = IF simple.processing THEN "read" ELSE "finally"]
  /\ SimpleFrame

\* self.input_stream.read(...): returns a chunk, or raises (always, once the
\* stream has been closed); the except clause prints and falls to finally
ThreadRead ==
  /\ ThreadAlive
  /\ simple.thread = "read"
  /\ \/ /\ simple.input_stream = "open"
        /\ simple.reads < MaxReads
        /\ \E v \in PlayerSampleValues :
             simple' = [simple EXCEPT
                          !.chunk = Chunk(CHUNK, v, "flat", "float"),
                          !.reads = @ + 1,
                          !.reads_after_failure = IF simple.failed THEN @ + 1 ELSE @,
                          !.thread = "process"]
     \/ simple' = [simple EXCEPT !.failed = TRUE, !.thread = "finally"]
  /\ SimpleFrame

\* apply_safety_limiting with its bookkeeping, the two extends, and the
\* write to the output stream (which raises once that stream is closed)
ThreadProcess ==
  /\ ThreadAlive
  /\ simple.thread = "process"
  /\ LET r == apply_safety_limiting(simple.chunk)
         db_level == r[2]
     IN  simple' = [simple EXCEPT
                      !.max_db_recorded = IF db_level # NegInf THEN Max(@, db_level) ELSE @,
                      !.db_history = HistoryAppend(@, IF db_level # NegInf
                                                      THEN db_level ELSE 0),
                      !.input_data = Min(@ + simple.chunk.n, CHUNK),
                      !.output_data = Min(@ + r[1].n, CHUNK),
                      !.thread = IF simple.output_stream = "open" THEN "loop"
                                 ELSE "finally"]
  /\ SimpleFrame

\* Variant of CloseQuietly: stop_stream() and close() without the
\* try/except around them.
CloseQuietly_NoTry(stream) ==
  [stream |-> IF stream = "None" THEN "None" ELSE "closed",
   escaped |-> stream = "closed"]

\* stop_processing, one stream: "if stream: try: stream.stop_stream();
\* stream.close() except: pass". stop_stream raises on a stream that is
\* closed already; the bare except swallows it.
CloseQuietly(stream) ==
  [stream |-> IF stream = "None" THEN "None" ELSE "closed",
   escaped |-> FALSE]

\* finally: self.stop_processing() at the end of audio_processing_loop;
\* its first statement clears the flag
ThreadFinally ==
  /\ ThreadAlive
  /\ simple.thread = "finally"
  /\ simple' = [simple EXCEPT !.processing = FALSE, !.thread = "stop_input"]
  /\ SimpleFrame

\* the audio thread's stop_processing: the input stream
ThreadStopInput ==
  /\ ThreadAlive
  /\ simple.thread = "stop_input"
  /\ LET r == CloseQuietly(simple.input_stream)
     IN  simple' = [simple EXCEPT !.input_stream = r.stream,
                                  !.escaped = @ \/ r.escaped,
                                  !.thread = "stop_output"]
  /\ SimpleFrame

\* the audio thread's stop_processing: the output stream; the thread ends
ThreadStopOutput ==
  /\ ThreadAlive
  /\ simple.thread = "stop_output"
  /\ LET r == CloseQuietly(simple.output_stream)
     IN  simple' = [simple EXCEPT !.output_stream = r.stream,
                                  !.escaped = @ \/ r.escaped,
                                  !.thread = "done"]
  /\ SimpleFrame

\* plt.show() returns: the window was closed
SimpleCloseWindow ==
  /\ simple.rpc = "show"
  /\ simple' = [simple EXCEPT !.rpc = "finally"]
  /\ SimpleFrame

\* run()'s finally: self.stop_processing(), whose first statement clears the
\* flag
SimpleRunFinally ==
  /\ simple.rpc = "finally"
  /\ simple' = [simple EXCEPT !.processing = FALSE, !.rpc = "stop_input"]
  /\ SimpleFrame

\* run()'s stop_processing: the input stream
SimpleRunStopInput ==
  /\ simple.rpc = "stop_input"
  /\ LET r == CloseQuietly(simple.input_stream)
     IN  simple' = [simple EXCEPT !.input_stream = r.stream,
                                  !.escaped = @ \/ r.escaped,
                                  !.rpc = "stop_output"]
  /\ SimpleFrame

\* run()'s stop_processing: the output stream
SimpleRunStopOutput ==
  /\ simple.rpc = "stop_output"
  /\ LET r == CloseQuietly(simple.output_stream)
     IN  simple' = [simple EXCEPT !.output_stream = r.stream,
                                  !.escaped = @ \/ r.escaped,
                                  !.rpc = "terminate"]
  /\ SimpleFrame

\* self.audio.terminate() closes every stream still open; run() returns and
\* the process, with its daemon thread, ends
SimpleTerminate ==
  /\ simple.rpc = "terminate"
  /\ simple' = [simple EXCEPT !.input_stream = IF @ = "open" THEN "closed" ELSE @,
                              !.output_stream = IF @ = "open" THEN "closed" ELSE @,
                              !.rpc = "exit"]
  /\ SimpleFrame

\* What update_plots draws from input_data, output_data, db_history and
\* max_db_recorded
Plotted ==
  LET full == simple.input_data >= CHUNK
      h    == simple.db_history
  IN  [input_len  |-> IF full THEN CHUNK ELSE simple.display.input_len,
       output_len |-> IF full THEN Min(simple.output_data, CHUNK)
                      ELSE simple.display.output_len,
       db_len     |-> IF Len(h) > 0 THEN Len(h) ELSE simple.display.db_len,
       current_db |-> IF Len(h) > 0 THEN h[Len(h)] ELSE simple.display.current_db,
       max_db     |-> IF Len(h) > 0 THEN simple.max_db_recorded
                      ELSE simple.display.max_db]

\* One frame of the figure's animation; returns at once when not processing
update_plots ==
  /\ simple.rpc = "show"
  /\ simple.processing
  /\ simple' = [simple EXCEPT !.display = Plotted]
  /\ SimpleFrame

NextSimple ==
  \/ SimpleSelectDevices
  \/ SimpleStartProcessing
  \/ ThreadOpenInput
  \/ ThreadOpenOutput
  \/ ThreadLoopTest
  \/ ThreadRead
  \/ ThreadProcess
  \/ ThreadFinally
  \/ ThreadStopInput
  \/ ThreadStopOutput
  \/ SimpleCloseWindow
  \/ SimpleRunFinally
  \/ SimpleRunStopInput
  \/ SimpleRunStopOutput
  \/ SimpleTerminate
  \/ update_plots

SpecSimple == InitSimple /\ [][NextSimple]_vars

\* The steps of the audio thread. The interpreter keeps scheduling a thread
\* that can run, and a blocking read returns or raises; nothing is assumed
\* about when the window is closed.
ThreadNext ==
  \/ ThreadOpenInput
  \/ ThreadOpenOutput
  \/ ThreadLoopTest
  \/ ThreadRead
  \/ ThreadProcess
  \/ ThreadFinally
  \/ ThreadStopInput
  \/ ThreadStopOutput

SpecSimpleFair == SpecSimple /\ WF_vars(ThreadNext)

\* ------------------------------------------------------------------------
\* The monitors of both programs: main() with visualize(), and run()
\* ------------------------------------------------------------------------
InitMonitors == InitMain \/ InitSimple

NextMonitors == NextMain \/ NextSimple

SpecMonitors == InitMonitors /\ [][NextMonitors]_vars

\* ------------------------------------------------------------------------
\* UltimateAudioVisualizer.visualize_microphone: buttons and animate
\* ------------------------------------------------------------------------
UltimateFrame ==
  UNCHANGED <<sessionVars, ghostVars, lim, mainVars, subtractVars, monitorVars, simple,
              twin, started>>

\* The window is open; auto_select_devices() has run (line 641) and found
\* both devices or not
InitUltimate ==
  /\ InitSession
  /\ InitTwin
  /\ lim = NoLimiterCall
  /\ InitMainIdle
  /\ InitSubtractIdle
  /\ InitMonitorIdle
  /\ simple = SimpleOff
  /\ \E found \in BOOLEAN :
       ult = [UltimateOff EXCEPT !.pc = "show", !.devices = found]

\* on_start_processing: auto-select when needed, open the input stream, try
\* the output stream, set processing_active
on_start_processing ==
  /\ ult.pc = "show"
  /\ \E found \in BOOLEAN, input_ok \in BOOLEAN, output_ok \in BOOLEAN :
       LET devices == ult.devices \/ found IN
       ult' = IF ~devices THEN ult
              ELSE IF ~input_ok
              THEN [ult EXCEPT !.devices = TRUE, !.processing_active = FALSE]
              ELSE [ult EXCEPT !.devices = TRUE,
                               !.stream_input = "open",
                               !.stream_output = IF output_ok THEN "open" ELSE "None",
                               !.processing_active = TRUE]
  /\ UltimateFrame

\* stream.stop_stream(); stream.close() on each stream that is not None (a
\* closed stream object is not None, the attributes are never reset);
\* stop_stream raises on a stream already closed, which leaves the rest
\* undone. restopped records that a closed stream was stopped again.
UltimateCloseStreams(u) ==
  IF u.stream_input = "closed" THEN [u EXCEPT !.restopped = TRUE]
  ELSE [u EXCEPT !.stream_input = IF @ = "open" THEN "closed" ELSE @,
                 !.stream_output = IF @ = "open" THEN "closed" ELSE @,
                 !.restopped = @ \/ u.stream_output = "closed"]

\* on_stop_processing
on_stop_processing ==
  /\ ult.pc = "show"
  /\ ult' = UltimateCloseStreams([ult EXCEPT !.processing_active = FALSE])
  /\ UltimateFrame

\* animate: one frame reads a chunk, limits it, writes it, updates the dB
\* history; an exception anywhere in the frame is printed and the frame ends
animate ==
  /\ ult.pc = "show"
  /\ ult.processing_active
  /\ ult.stream_input # "None"
  /\ \/ /\ ult.stream_input = "open"
        /\ ult.reads < MaxReads
        /\ \E v \in PlayerSampleValues :
             LET r == apply_safety_limiting(Chunk(CHUNK, v, "flat", "float"))
                 db_level == r[2]
                 written == ult.stream_output # "closed"
             IN  ult' = [ult EXCEPT
                           !.reads = @ + 1,
                           !.reads_after_failure = IF ult.failed THEN @ + 1 ELSE @,
                           !.db_history =
                              IF written
                              THEN HistoryAppend(@, IF db_level # NegInf
                                                    THEN db_level ELSE 0)
                              ELSE @,
                           !.max_db_recorded =
                              IF written /\ db_level # NegInf
                              THEN Max(@, db_level) ELSE @]
     \/ ult' = [ult EXCEPT !.failed = TRUE]
  /\ UltimateFrame

\* plt.show() returns; the cleanup closes the streams and terminates PyAudio
UltimateCloseWindow ==
  /\ ult.pc = "show"
  /\ ult' = UltimateCloseStreams([ult EXCEPT !.pc = "exit"])
  /\ UltimateFrame

NextUltimate ==
  \/ on_start_processing
  \/ on_stop_processing
  \/ animate
  \/ UltimateCloseWindow

SpecUltimate == InitUltimate /\ [][NextUltimate]_vars

\* ------------------------------------------------------------------------
\* Claims
\* ------------------------------------------------------------------------
\* C2 (as claimed): over the start-up sequence of main(), never are two
\* audio-callback contexts inside process_audio_chunk of the session at the
\* same time.
C2_SingleProcessingContext ==
  Cardinality({s \in Streams : cb[s] # "idle"}) <= 1

RanStage(name) == \E i \in 1..Len(last.stages) : last.stages[i] = name

\* C1 (as claimed): in Active state every call to process_audio_chunk
\* applies the limiter to the chunk before it is output, for a chunk of any
\* length (an empty chunk has nothing to limit).
C1_LimiterOnEveryActiveChunk ==
  (last.called /\ last.state = "Active" /\ last.input.n > 0)
    => (~last.raised /\ RanStage("limit"))

\* C3: the session starts in Learning; once learning_noise is False it never
\* becomes True again, and the transition code runs at most once, exactly
\* once when the session has left Learning.
C3_TransitionExactlyOnce ==
  /\ (learning_noise = TRUE /\ transitions = 0)
  /\ [][/\ (~learning_noise => ~learning_noise')
        /\ transitions' = (IF learning_noise' THEN 0 ELSE 1)]_vars

C3_Witness ==
  /\ transitions = 1
  /\ last.called /\ last.state \in {"Active", "Bypassed"}
  /\ calls = MaxCalls

\* C4: the Learning->Active transition fires on the chunk with which the
\* accumulated samples reach int(RATE * noise_learning_duration), neither
\* earlier nor later, and the profile made then has exactly that length.
C4_TransitionAtBoundary ==
  /\ learning_noise => BufferLen(noise_buffer) < NoiseBufferMaxlen
  /\ (last.called /\ last.state = "Learning")
       => /\ last.fired <=> (last.accumulated >= NoiseBufferMaxlen)
          /\ last.fired <=> ~learning_noise
  /\ ~learning_noise => (~noise_profile.none /\ noise_profile.len = NoiseBufferMaxlen)

\* the boundary chunk overshoots the learning window
C4_Witness ==
  /\ last.called /\ last.state = "Learning" /\ last.fired
  /\ last.accumulated > NoiseBufferMaxlen
  /\ Len(noise_buffer) = 1

\* C5: during Learning every chunk, the boundary chunk included, is returned
\* unmodified.
C5_LearningPassesThrough ==
  (last.called /\ last.state = "Learning")
    => (~last.raised /\ last.output = last.input /\ last.stages = <<>>)

\* a boundary chunk loud enough for the limiter to change it
C5_Witness ==
  /\ last.called /\ last.state = "Learning" /\ last.fired
  /\ calculate_db_level(AsFloat(last.input)) > MAX_DB10

\* C6: noise_profile is None until the transition and keeps the value it
\* received there, whatever chunks and bypass changes follow.
C6_ProfileImmutable ==
  [][/\ (learning_noise => noise_profile.none)
     /\ (~learning_noise => (~noise_profile.none /\ noise_profile' = noise_profile))]_vars

C6_Witness ==
  /\ last.called /\ last.state = "Active" /\ ~last.raised
  /\ ~last.profile_before.none /\ noise_profile = last.profile_before
  /\ ~processing_enabled

\* C7: for a chunk measured above the 70 dB ceiling, the level of the chunk
\* a limiter returns is at most ceiling + epsilon.
C7_LimitedBelowCeiling ==
  (lim.impl # "none" /\ calculate_db_level(lim.input) > MAX_DB10)
    => calculate_db_level(lim.output) <= MAX_DB10 + Epsilon10

C7_Witness ==
  /\ lim.impl = "simple"
  /\ calculate_db_level(lim.input) = Calibration10
  /\ calculate_db_level(lim.output) = MAX_DB10

\* C8 (as claimed): the dB value adaptive_volume_control returns is the
\* level of the chunk it returns.
C8_ReturnsPostProcessingDb ==
  lim.impl = "adaptive" => lim.db = calculate_db_level(lim.output)

\* C9 (as claimed): process_audio_chunk never raises, in any state, for any
\* chunk length.
C9_NeverRaises == last.called => ~last.raised

\* C10: for a chunk at or below the ceiling, silent chunks included, the
\* limiter returns the input samples exactly.
C10_CompliantUnchanged ==
  (lim.impl = "adaptive" /\ calculate_db_level(lim.input) <= MAX_DB10)
    => lim.output = lim.input

\* a chunk exactly at the ceiling
C10_Witness ==
  /\ lim.impl = "adaptive"
  /\ calculate_db_level(lim.input) = MAX_DB10
  /\ lim.output = lim.input

BypassReturnsInput ==
  /\ (last.called /\ last.state = "Bypassed")
       => (~last.raised /\ last.output = last.input /\ last.stages = <<>>)
  /\ (last.called /\ last.prev = "Bypassed" /\ last.state = "Active"
        /\ last.input.n > PadLen)
       => (RanStage("filter") /\ RanStage("limit"))

C18_MetricsComplete ==
  last.called
    => /\ current_db = calculate_db_level(AsFloat(last.input))
       /\ max_db_recorded >= current_db
       /\ processed_db.set
       /\ (~last.raised => processed_db.db = calculate_db_level(AsFloat(last.output)))

\* C12 (as claimed): spectral_subtraction called with a chunk whose length
\* differs from the profile's returns the chunk unchanged and does not fail.
C12_MismatchReturnsChunk ==
  (sub.done /\ ~sub.profile.none /\ sub.input.n # sub.profile.len)
    => (~sub.raised /\ sub.output = sub.input)

\* The call site's side of C12: process_audio_chunk calls
\* spectral_subtraction only when the lengths match, so a chunk of another
\* length skips the stage.
MismatchSkipsSubtraction ==
  (last.called /\ last.state = "Active" /\ ~last.profile_before.none
     /\ last.input.n # last.profile_before.len)
    => ~RanStage("subtract")

\* C13 (as claimed): with noise_reduction_factor = 0 and matching lengths,
\* spectral_subtraction returns the input chunk (up to rounding).
C13_RoundTripAtZero ==
  (sub.done /\ noise_reduction_factor = 0 /\ ~sub.profile.none
     /\ sub.input.n = sub.profile.len)
    => /\ ~sub.raised
       /\ sub.output.n = sub.input.n
       /\ sub.output.shape = sub.input.shape
       /\ Abs(sub.output.a - sub.input.a) <= 1

\* C14: applying the limiter to the chunk the limiter returned gives that
\* chunk back: limit(limit(x)) = limit(x).
C14_LimiterIdempotent ==
  (lim.impl = "adaptive" /\ lim.passes = 2)
    => (lim.output = lim.first /\ calculate_db_level(lim.first) <= MAX_DB10)

\* the first pass lowered the chunk, the second left it alone
C14_Witness ==
  /\ lim.impl = "adaptive" /\ lim.passes = 2
  /\ calculate_db_level(lim.input) > MAX_DB10
  /\ lim.first # lim.input
  /\ lim.output = lim.first

IsLevelOf(db, rms) ==
  IF rms = 0 THEN db = NegInf
  ELSE /\ db <= Calibration10
       /\ db > Calibration10 - 1000
       /\ db_to_linear_times(FullScale, db - Calibration10) >= rms
       /\ db_to_linear_times(FullScale, db - Calibration10 - 1) <= rms

\* C16: the level meter returns -inf for an empty chunk and for RMS 0, and
\* 20*log10(RMS) + 94 otherwise, in both implementations, and leaves the
\* session as it was constructed.
C16_LevelMeterTotalPure ==
  /\ lim.metered => (IsLevelOf(lim.level, Rms(lim.input)) /\ InitSession)
  /\ (lim.impl = "simple" /\ lim.passes = 1) => IsLevelOf(lim.db, Rms(lim.input))

C16_Witness ==
  /\ lim.metered
  /\ lim.input.shape = "hann"
  /\ lim.level > MAX_DB10
  /\ lim.level < Calibration10

\* C19: a frame of the monitor writes nothing but the figure: the learner
\* buffer, the learning flags, the noise profile, the dB metrics, the
\* visualization buffers, the streams and the callbacks' positions are as
\* they were, in visualize()'s animate and in update_plots.
C19_MonitorOnlyReads ==
  /\ [][display' # display
          => UNCHANGED <<sessionVars, input_buffer, output_buffer, mainVars>>]_vars
  /\ [][simple'.display # simple.display
          => simple' = [simple EXCEPT !.display = simple'.display]]_vars

\* a frame drawn in the middle of learning, between two callbacks' steps
C19_Witness ==
  /\ display.status = "learning"
  /\ display.input_len = 4 * CHUNK
  /\ \E s \in Streams : cb[s] = "extend"
  /\ input_buffer > 4 * CHUNK

\* C20 (as claimed): after a read from the input stream has raised, the
\* processing flag is off, the streams are closed and no further chunk is
\* read.
C20_ReadFailureEndsSession ==
  ult.failed
    => /\ ~ult.processing_active
       /\ ult.stream_input # "open"
       /\ ult.stream_output # "open"
       /\ ult.reads_after_failure = 0

\* The half of C20 about audio_processing_loop: no read follows a failed
\* read, and once the thread has finished the flag is off and the streams
\* are closed.
SimpleReadFailureEndsSession ==
  simple.failed
    => /\ simple.reads_after_failure = 0
       /\ simple.thread \in {"finally", "done"} \cup InStopProcessing
       /\ simple.thread = "done"
            => (~simple.processing /\ simple.input_stream # "open"
                  /\ simple.output_stream # "open")

C22_GainThenSoftKnee ==
  (lim.impl # "none" /\ lim.passes = 1 /\ calculate_db_level(lim.input) > MAX_DB10)
    => lim.output.a
         = SoftLimit(db_to_linear_times(lim.input.a,
                                        -(calculate_db_level(lim.input) - MAX_DB10)))

\* The half of C22 about adaptive_volume_control.
AdaptiveGainThenSoftKnee ==
  (lim.impl = "adaptive" /\ lim.passes = 1 /\ calculate_db_level(lim.input) > MAX_DB10)
    => lim.output.a
         = SoftLimit(db_to_linear_times(lim.input.a,
                                        -(calculate_db_level(lim.input) - MAX_DB10)))

\* C23 (as claimed): in every reachable state the learner buffer holds at
\* most int(RATE * noise_learning_duration) samples, and the buffer is
\* written only while the session is Learning: no audio callback stands at
\* the extend statement (line 384) of a session that has left Learning.
C23_BufferCappedAndFrozen ==
  /\ BufferLen(noise_buffer) <= NoiseBufferMaxlen
  /\ \A s \in Streams : cb[s] = "extend" => learning_noise

\* C23 for sequential calls: the cap holds and a step that changes the
\* buffer starts in Learning.
SequentialBufferCappedAndFrozen ==
  /\ [](BufferLen(noise_buffer) <= NoiseBufferMaxlen)
  /\ [][noise_buffer' # noise_buffer => learning_noise = TRUE]_vars

\* The cap alone, which also holds with the two callback streams of main().
BufferNeverExceedsMaxlen == BufferLen(noise_buffer) <= NoiseBufferMaxlen

\* C24: start_processing tries the alternative configuration exactly when
\* the primary open failed, raises exactly when both opens failed, and
\* FORMAT/CHANNELS/RATE/CHUNK are the alternative's when the alternative
\* open succeeded and what they were before the call otherwise.
C24_OrderedCandidates ==
  started.called
    => /\ started.alt_tried <=> ~started.primary_ok
       /\ started.raised <=> (~started.primary_ok /\ ~started.alt_ok)
       /\ config = IF started.alt_tried /\ started.alt_ok
                   THEN AlternativeConfig ELSE started.before

\* the primary open failed, the alternative one succeeded
C24_Witness ==
  /\ started.called /\ ~started.primary_ok /\ started.alt_tried /\ started.alt_ok
  /\ ~started.raised
  /\ started.before = PrimaryConfig
  /\ config = AlternativeConfig

\* C25: in Active, spectral subtraction runs on a chunk exactly when the
\* chunk has as many samples as the noise profile has bins; the profile has
\* int(RATE * noise_learning_duration) = 132300 bins, so a chunk of the
\* stream's size (1024 samples, or the 512 frames of the fallback) never
\* goes through it.
C25_SubtractionOnlyOnMatch ==
  /\ ~noise_profile.none => noise_profile.len = NoiseBufferMaxlen
  /\ (last.called /\ last.state = "Active")
       => /\ RanStage("subtract")
               <=> (last.input.n > 0 /\ last.input.n = last.profile_before.len)
          /\ last.input.n \in {CHUNK, AltCHUNK, 2 * AltCHUNK} => ~RanStage("subtract")

\* a chunk of the stream's size is filtered and limited, not subtracted
C25_Witness ==
  /\ last.called /\ last.state = "Active" /\ ~last.raised
  /\ last.input.n = CHUNK
  /\ ~RanStage("subtract")
  /\ RanStage("filter") /\ RanStage("limit")

\* C25 in main(): no callback that takes the Active branch runs the
\* subtraction stage.
CallbackNeverSubtracts ==
  \A s \in Streams :
    cb[s] = "active"
      => ~(\E i \in DOMAIN ActivePipeline(AsFloat(cb_chunk[s]), noise_profile,
                                          noise_learned).stages :
             ActivePipeline(AsFloat(cb_chunk[s]), noise_profile,
                            noise_learned).stages[i] = "subtract")

\* C26: after any sequence of calls, noise_learned is True exactly when
\* learning_noise is False, and noise_profile is None exactly when
\* learning_noise is True.
C26_FlagsConsistent ==
  /\ noise_learned <=> ~learning_noise
  /\ noise_profile.none <=> learning_noise

\* after the transition, with the session bypassed
C26_Witness ==
  /\ last.called /\ last.state = "Bypassed"
  /\ ~learning_noise /\ noise_learned /\ ~noise_profile.none

\* C27: a call made during Learning extends the learner buffer and leaves
\* Learning exactly when the buffer is full, whatever processing_enabled is;
\* a call made in Bypassed leaves the learning flags, the learner buffer,
\* the noise profile and processed_db as they were.
C27_BypassLeavesLearnerAlone ==
  /\ [][(calls' # calls /\ learning_noise = TRUE)
          => /\ noise_buffer' = BufferExtend(noise_buffer, AsFloat(last'.input))
             /\ learning_noise' = FALSE <=> BufferLen(noise_buffer') >= NoiseBufferMaxlen
             /\ last'.state = "Learning"]_vars
  /\ [][(calls' # calls /\ learning_noise = FALSE /\ processing_enabled = FALSE)
          => /\ UNCHANGED <<learning_noise, noise_learned, noise_buffer,
                            noise_profile, processed_db>>
             /\ last'.state = "Bypassed"]_vars

\* the transition fired on a chunk that arrived with the flag off
C27_Witness ==
  /\ last.called /\ last.state = "Learning" /\ last.fired
  /\ ~processing_enabled
  /\ last.prev = "Learning"
  /\ ~learning_noise

\* C28: max_db_recorded starts at 0, never decreases, and after a call is
\* the larger of its old value and the level of the chunk just seen (a
\* silent chunk, level -inf, leaves it as it was), in every state.
C28_RunningMaximum ==
  /\ [](max_db_recorded >= 0 /\ (calls = 0 => max_db_recorded = 0))
  /\ [][max_db_recorded' >= max_db_recorded]_vars
  /\ [][calls' # calls
          => max_db_recorded'
               = Max(max_db_recorded, calculate_db_level(AsFloat(last'.input)))]_vars
  /\ [](last.called => max_db_recorded >= calculate_db_level(AsFloat(last.input)))

\* a quieter chunk after a louder one, in Bypassed
C28_Witness ==
  /\ last.called /\ last.state = "Bypassed"
  /\ calculate_db_level(AsFloat(last.input)) > 0
  /\ max_db_recorded > calculate_db_level(AsFloat(last.input))

\* C28 for SimpleAudioProcessor: max_db_recorded is the largest entry of
\* db_history (which holds 0 for a silent chunk).
SimpleMaxIsRunningMaximum ==
  /\ simple.max_db_recorded >= 0
  /\ \A i \in DOMAIN simple.db_history : simple.max_db_recorded >= simple.db_history[i]
  /\ simple.max_db_recorded > 0
       => \E i \in DOMAIN simple.db_history : simple.max_db_recorded = simple.db_history[i]

\* C29: under every interleaving of run()'s stop_processing with the audio
\* thread: no exception leaves stop_processing; when the thread has ended,
\* and when run() has returned, the flag is False and no stream is open;
\* a thread whose loop has ended goes on to finish stop_processing; and once
\* the flag is False the thread ends (or the process does).
C29_ShutdownSafe ==
  /\ [](~simple.escaped)
  /\ [](simple.thread = "done"
          => (~simple.processing /\ simple.input_stream # "open"
                /\ simple.output_stream # "open"))
  /\ [](simple.rpc = "exit"
          => (~simple.processing /\ simple.input_stream # "open"
                /\ simple.output_stream # "open"))
  /\ [](simple.thread \in InStopProcessing \cup {"done"} => ~simple.processing)
  /\ [][simple.thread' = "done" => simple.thread \in {"stop_output", "done"}]_vars
  /\ (simple.thread = "finally") ~> (simple.thread = "done" \/ simple.rpc = "exit")
  /\ (~simple.processing /\ simple.thread \notin {"none", "done"})
       ~> (simple.thread = "done" \/ simple.rpc = "exit")

\* both callers of stop_processing met: run() closed the streams first, the
\* thread then ran its own stop_processing on the closed streams and ended
C29_Witness ==
  /\ simple.thread = "done"
  /\ simple.rpc = "terminate"
  /\ simple.failed
  /\ simple.input_stream = "closed" /\ simple.output_stream = "closed"
  /\ ~simple.processing

\* C30 (as claimed): in the live-microphone visualizer, for every sequence
\* of Start and Stop clicks followed by the cleanup, a chunk is read only
\* while processing_active is True, no stream is open once the function has
\* returned, and no stream is stopped or closed a second time.
C30_StreamsClosedOnce ==
  /\ [][ult.reads' # ult.reads => ult.processing_active = TRUE]_vars
  /\ [](ult.pc = "exit" => (ult.stream_input # "open" /\ ult.stream_output # "open"))
  /\ [](~ult.restopped)

\* The parts of C30 that hold: reads happen only while processing_active,
\* and nothing is open after the cleanup.
NoChunkWhileStopped ==
  /\ [][ult.reads' # ult.reads => ult.processing_active = TRUE]_vars
  /\ [](ult.pc = "exit" => (ult.stream_input # "open" /\ ult.stream_output # "open"))

====
